---- MODULE Spec2Model ----
(***************************************************************************)
(* Model of lib/reporter.js (AbstractReporter) of mocha-parallel-tests and *)
(* of the bin script that turns the final failure count into the exit code.*)
(*                                                                         *)
(* One AbstractReporter ("collector") is constructed per mocha run.  The   *)
(* module-level state (reporterInstance, testsFinished, failsOccured,      *)
(* stdMessagesMap) is shared by all collectors.  Every handler runs to     *)
(* completion on the node event loop, so each handler is one atomic action.*)
(***************************************************************************)
EXTENDS Integers, Sequences, FiniteSets, TLC

\* ---------------------------------------------------------------- bounds
NumCollectors == 2      \* collectors (mocha runs) that may be constructed
MaxEvents     == 2      \* lifecycle events buffered, over all collectors
MaxMessages   == 1      \* captured std stream messages, over all files
MaxTime       == 1      \* Date.now() returns a value in 0..MaxTime
MaxEnds       == 2      \* 'end' signals delivered, over all collectors
MaxSortEvents == 3      \* SortSpec: buffered events of the one collector
MaxSortMsgs   == 2      \* SortSpec: captured messages of its file

Collectors == 1..NumCollectors
Files      == {"f1", "f2"}          \* test files (worker identities)
NoFile     == "undefined"           \* this._testFile when the runner has no suites
Streams    == {"stdout", "stderr"}
\* Date.now() reads the wall clock, which the system may set back between two
\* readings: every reading is an input of the handler that makes it
Times      == 0..MaxTime

\* reporter.js:22-31
RUNNER_EVENTS ==
    <<"suite", "suite end", "test", "pending", "pass", "test end", "fail", "failRetry">>

\* the kinds the runner is made to emit in the model: one of the six kinds the
\* handler only buffers, and the two kinds it treats specially
Kinds == {"pass", "fail", "failRetry"}

VARIABLES
    options,            \* options passed to every collector (testsLength may be absent)
    reporterInstance,   \* module-level reporterInstance: 0 = undefined, else id of the instance
    reporterCreated,    \* number of `new UserReporter(...)` evaluations so far
    testsFinished,      \* module-level testsFinished
    failsOccured,       \* module-level failsOccured
    stdMessagesMap,     \* file -> sequence of intercepted messages (<<>> = no entry)
    messagesSeen,       \* number of 'message' events handled; the text of the n-th is n
    failListeners,      \* listeners registered on stdStreamsEmitter 'fail'
    status,             \* collector -> "none" | "constructed" | "failed"
    testFile,           \* collector -> this._testFile
    eventsNotEmited,    \* collector -> this._eventsNotEmited
    ended,              \* collector -> number of 'end' signals its runner has delivered
    retrying,           \* collector whose failed attempt is being abandoned, 0 if none
    retryMark,          \* collector -> messagesSeen at its latest 'failRetry' (history)
    runnerStarted,      \* runnerWrapped.start() has been called
    output,             \* calls made so far on runnerWrapped.emit / originalWrites, in order
    endCalls,           \* arguments of the calls runnerWrapped.end(failsOccured), in order
    exitCode            \* <<>> while the process runs, <<n>> after process.exit(n)

vars == <<options, reporterInstance, reporterCreated, testsFinished, failsOccured,
          stdMessagesMap, messagesSeen, failListeners, status, testFile,
          eventsNotEmited, ended, retrying, retryMark, runnerStarted, output, endCalls,
          exitCode>>

\* ------------------------------------------------------------ helpers
Alive == exitCode = <<>>

\* this._options.testsLength is present and === n
TestsLengthIs(n) == "testsLength" \in DOMAIN options /\ options.testsLength = n

\* reporter.js:184-199, the comparator handed to allEvents.sort
EventWeightSwapped(a) == IF a.type = "runnerEvent" THEN 0 ELSE 1

EventWeight(a) == IF a.type = "runnerEvent" THEN 1 ELSE 0

ComparatorIndexReversed(a, b) ==
    LET timestampDiff == a.meta.timestamp - b.meta.timestamp
        weightDiff    == EventWeight(a) - EventWeight(b)
    IN  IF timestampDiff # 0 THEN timestampDiff
        ELSE IF weightDiff # 0 THEN weightDiff
        ELSE b.meta.index - a.meta.index

ComparatorNoWeight(a, b) ==
    LET timestampDiff == a.meta.timestamp - b.meta.timestamp
    IN  IF timestampDiff # 0 THEN timestampDiff
        ELSE a.meta.index - b.meta.index

Comparator(a, b) ==
    LET timestampDiff == a.meta.timestamp - b.meta.timestamp
        weightDiff    == EventWeight(a) - EventWeight(b)
    IN  IF timestampDiff # 0 THEN timestampDiff
        ELSE IF weightDiff # 0 THEN weightDiff
        ELSE a.meta.index - b.meta.index

\* Array.prototype.sort with that comparator, as an insertion sort
RECURSIVE InsertSorted(_, _)
InsertSorted(x, s) ==
    IF s = <<>> THEN <<x>>
    ELSE IF Comparator(x, Head(s)) < 0 THEN <<x>> \o s
    ELSE <<Head(s)>> \o InsertSorted(x, Tail(s))

RECURSIVE SortEvents(_)
SortEvents(s) ==
    IF s = <<>> THEN <<>>
    ELSE InsertSorted(s[Len(s)], SortEvents(SubSeq(s, 1, Len(s) - 1)))

\* stdMessagesMap.get(file) || []
MessagesOfFirstFile(file) == stdMessagesMap["f1"]

MessagesOf(file) == IF file \in Files THEN stdMessagesMap[file] ELSE <<>>

\* reporter.js:151-181, the merge set of collector c before sorting
AllEvents(c) ==
    [i \in 1..Len(eventsNotEmited[c]) |->
        [type    |-> "runnerEvent",
         payload |-> [type |-> eventsNotEmited[c][i].type,
                      data |-> eventsNotEmited[c][i].data],
         meta    |-> [index |-> i - 1, timestamp |-> eventsNotEmited[c][i].timestamp]]]
    \o
    [i \in 1..Len(MessagesOf(testFile[c])) |->
        [type    |-> "stdStreamMessage",
         payload |-> [streamName |-> MessagesOf(testFile[c])[i].streamName,
                      message    |-> MessagesOf(testFile[c])[i].message],
         meta    |-> [index |-> i - 1, timestamp |-> MessagesOf(testFile[c])[i].timestamp]]]

\* reporter.js:200-206, the replay of the sorted merge set: the calls
\* runnerWrapped.emit(payload.type, ...payload.data) for a runnerEvent and
\* originalWrites[payload.streamName](payload.message) for a stdStreamMessage
Replay(c) ==
    LET sorted == SortEvents(AllEvents(c))
    IN  [i \in 1..Len(sorted) |->
            [type |-> sorted[i].type, payload |-> sorted[i].payload,
             meta |-> sorted[i].meta, by |-> c, live |-> FALSE]]

\* number of lifecycle events buffered so far by the collectors 1..c
RECURSIVE EventsBuffered(_)
EventsBuffered(c) ==
    IF c = 0 THEN 0 ELSE Len(eventsNotEmited[c]) + EventsBuffered(c - 1)

\* ---------------------------------------------------------------- Init
OptionsSet ==
    {<<>>} \cup {[testsLength |-> n] : n \in 0..NumCollectors}

Init ==
    /\ options \in OptionsSet
    /\ reporterInstance = 0
    /\ reporterCreated = 0
    /\ testsFinished = 0
    /\ failsOccured = 0
    /\ stdMessagesMap = [f \in Files |-> <<>>]
    /\ messagesSeen = 0
    /\ failListeners = 0
    /\ status = [c \in Collectors |-> "none"]
    /\ testFile = [c \in Collectors |-> NoFile]
    /\ eventsNotEmited = [c \in Collectors |-> <<>>]
    /\ ended = [c \in Collectors |-> 0]
    /\ retrying = 0
    /\ retryMark = [c \in Collectors |-> 0]
    /\ runnerStarted = FALSE
    /\ output = <<>>
    /\ endCalls = <<>>
    /\ exitCode = <<>>

\* ------------------------------------------------------------- actions
StdMessageDropsUnknown(file, streamName, now) ==
    /\ Alive
    /\ retrying = 0
    /\ messagesSeen < MaxMessages
    /\ messagesSeen' = messagesSeen + 1
    /\ stdMessagesMap' =
          IF \E c \in Collectors : testFile[c] = file /\ ended[c] = 0
          THEN [stdMessagesMap EXCEPT ![file] =
                  Append(@, [streamName |-> streamName,
                             message    |-> <<file, messagesSeen + 1>>,
                             timestamp  |-> now])]
          ELSE stdMessagesMap
    /\ UNCHANGED <<options, reporterInstance, reporterCreated, testsFinished,
                   failsOccured, failListeners, status, testFile, eventsNotEmited,
                   ended, retrying, retryMark, runnerStarted, output, endCalls,
                   exitCode>>

\* reporter.js:48-61, stdStreamsEmitter.on('message').  The text of a message
\* is opaque to the reporter; the n-th message, captured for file f, is <<f, n>>.
StdMessage(file, streamName, now) ==
    /\ Alive
    /\ retrying = 0
    /\ messagesSeen < MaxMessages
    /\ messagesSeen' = messagesSeen + 1
    /\ stdMessagesMap' = [stdMessagesMap EXCEPT ![file] =
            Append(@, [streamName |-> streamName,
                       message    |-> <<file, messagesSeen + 1>>,
                       timestamp  |-> now])]
    /\ UNCHANGED <<options, reporterInstance, reporterCreated, testsFinished,
                   failsOccured, failListeners, status, testFile, eventsNotEmited,
                   ended, retrying, retryMark, runnerStarted, output, endCalls,
                   exitCode>>

\* reporter.js:89, the listeners of stdStreamsEmitter 'fail': every registered
\* listener runs stdMessagesMap.delete(file) for the file the event names
FailListenersRunNoDelete(file) == stdMessagesMap

FailListenersRunDeleteOthers(file) ==
    IF failListeners > 0
    THEN [f \in Files |-> IF f = file THEN stdMessagesMap[f] ELSE <<>>]
    ELSE stdMessagesMap

FailListenersRun(file) ==
    IF failListeners > 0
    THEN [stdMessagesMap EXCEPT ![file] = <<>>]
    ELSE stdMessagesMap

\* The retry machinery (lib code outside reporter.js) abandons the failed
\* attempt of collector c's test file: it emits 'fail' on stdStreamsEmitter for
\* that file and then, in the same turn of the event loop, 'failRetry' on c's
\* runner.  file is the file c's runner executes (c knows it as this._testFile
\* unless the runner has no suites).
StdFail(c, file) ==
    /\ Alive
    /\ retrying = 0
    /\ status[c] = "constructed"
    /\ ended[c] = 0
    /\ EventsBuffered(NumCollectors) < MaxEvents
    /\ testFile[c] \in {file, NoFile}
    /\ stdMessagesMap' = FailListenersRun(file)
    /\ retrying' = c
    /\ UNCHANGED <<options, reporterInstance, reporterCreated, testsFinished,
                   failsOccured, messagesSeen, failListeners, status, testFile,
                   eventsNotEmited, ended, retryMark, runnerStarted, output, endCalls,
                   exitCode>>

\* the runner events the retry machinery lets through: 'failRetry' only as the
\* second half of a retry, nothing else in between
MayEmit(c, eventType) ==
    IF eventType = "failRetry" THEN retrying = c ELSE retrying = 0

\* reporter.js:94-96, _setReporterOnce goes on only while reporterInstance is unset
ReporterUnsetAlways == TRUE

ReporterUnsetNever == FALSE

ReporterUnset == reporterInstance = 0

\* reporter.js:94-118, _setReporterOnce throws: no reporter exists yet and none
\* of the reporterTryPaths could be required (winner = 0)
ConstructorThrowsNever(winner) == FALSE

ConstructorThrows(winner) == ReporterUnset /\ winner = 0

\* reporter.js:64-121, new AbstractReporter(runner, options).  Collectors are
\* numbered in the order of their construction.
\* winner: the first of the three reporterTryPaths that require() resolves, 0 if none;
\* file: runner.suite.suites[0].file, NoFile when the runner has no suites
Construct(c, winner, file) ==
    /\ Alive
    /\ retrying = 0
    /\ status[c] = "none"
    /\ \A d \in 1..(c - 1) : status[d] # "none"
    /\ IF ConstructorThrows(winner)
       THEN \* _setReporterOnce throws: the constructor is left before _detectFile
            /\ status' = [status EXCEPT ![c] = "failed"]
            /\ UNCHANGED <<reporterInstance, reporterCreated, testFile, failListeners,
                           runnerStarted>>
       ELSE /\ status' = [status EXCEPT ![c] = "constructed"]
            /\ IF ReporterUnset
               THEN /\ reporterCreated' = reporterCreated + 1
                    /\ reporterInstance' = reporterCreated + 1
               ELSE UNCHANGED <<reporterInstance, reporterCreated>>
            /\ testFile' = [testFile EXCEPT ![c] = file]
            /\ failListeners' = IF file # NoFile THEN failListeners + 1 ELSE failListeners
            /\ runnerStarted' = TRUE
    /\ UNCHANGED <<options, testsFinished, failsOccured, stdMessagesMap, messagesSeen,
                   eventsNotEmited, ended, retrying, retryMark, output, endCalls,
                   exitCode>>

\* reporter.js:138-141, the change of failsOccured an event of this kind makes
FailsDeltaNoRetry(eventType) == IF eventType = "fail" THEN 1 ELSE 0

FailsDelta(eventType) ==
    IF eventType = "fail" THEN 1
    ELSE IF eventType = "failRetry" THEN 0 - 1
    ELSE 0

\* reporter.js:140-142, the kinds the listener hands to runnerWrapped.emit at once
ForwardedAtOnceWithFail(eventType) == eventType \in {"fail", "failRetry"}

ForwardedAtOnceNever(eventType) == FALSE

ForwardedAtOnce(eventType) == eventType = "failRetry"

\* reporter.js:123-145, the listener of every RUNNER_EVENTS kind.  A mocha
\* runner emits its lifecycle events before its 'end'.  The arguments of an
\* event are opaque to the reporter; those of c's n-th event are <<c, n>>.
RunnerEvent(c, eventType, now) ==
    LET stored == [type      |-> eventType,
                   data      |-> <<c, Len(eventsNotEmited[c]) + 1>>,
                   timestamp |-> now]
    IN
    /\ Alive
    /\ MayEmit(c, eventType)
    /\ status[c] = "constructed"
    /\ eventType = "failRetry" \/ EventsBuffered(NumCollectors) < MaxEvents
    /\ ended[c] = 0
    /\ eventsNotEmited' = [eventsNotEmited EXCEPT ![c] = Append(@, stored)]
    /\ failsOccured' = failsOccured + FailsDelta(eventType)
    /\ output' = IF ForwardedAtOnce(eventType)
                 THEN Append(output,
                        [type    |-> "runnerEvent",
                         payload |-> [type |-> eventType, data |-> stored.data],
                         meta    |-> [index |-> Len(eventsNotEmited[c]),
                                      timestamp |-> now],
                         by      |-> c,
                         live    |-> TRUE])
                 ELSE output
    /\ retrying' = 0
    /\ retryMark' = IF eventType = "failRetry"
                    THEN [retryMark EXCEPT ![c] = messagesSeen]
                    ELSE retryMark
    /\ UNCHANGED <<options, reporterInstance, reporterCreated, testsFinished,
                   stdMessagesMap, messagesSeen, failListeners, status, testFile,
                   ended, runnerStarted, endCalls, exitCode>>

\* reporter.js:210, testsFinished === this._options.testsLength
IsTheEndAtLeast(finished) ==
    "testsLength" \in DOMAIN options /\ finished >= options.testsLength

IsTheEnd(finished) == TestsLengthIs(finished)

RunnerEndDrains(c) ==
    /\ Alive
    /\ retrying = 0
    /\ status[c] = "constructed"
    /\ testsFinished < MaxEnds
    /\ ended' = [ended EXCEPT ![c] = @ + 1]
    /\ output' = output \o Replay(c)
    /\ testsFinished' = testsFinished + 1
    /\ endCalls' = IF IsTheEnd(testsFinished + 1)
                   THEN Append(endCalls, failsOccured)
                   ELSE endCalls
    /\ eventsNotEmited' = [eventsNotEmited EXCEPT ![c] = <<>>]
    /\ UNCHANGED <<options, reporterInstance, reporterCreated, failsOccured,
                   stdMessagesMap, messagesSeen, failListeners, status, testFile,
                   retrying, retryMark, runnerStarted, exitCode>>

\* reporter.js:147-216, the listener of the runner's 'end'
RunnerEnd(c) ==
    /\ Alive
    /\ retrying = 0
    /\ status[c] = "constructed"
    /\ testsFinished < MaxEnds
    /\ ended' = [ended EXCEPT ![c] = @ + 1]
    /\ output' = output \o Replay(c)
    /\ testsFinished' = testsFinished + 1
    /\ endCalls' = IF IsTheEnd(testsFinished + 1)
                   THEN Append(endCalls, failsOccured)
                   ELSE endCalls
    /\ UNCHANGED <<options, reporterInstance, reporterCreated, failsOccured,
                   stdMessagesMap, messagesSeen, failListeners, status, testFile,
                   eventsNotEmited, retrying, retryMark, runnerStarted, exitCode>>

\* bin script, lines 15-27: the promise of binHelper resolves with the value
\* handed to runnerWrapped.end, and the process exits with it (at once, or at
\* the 'exit' event under --no-exit)
ProcessExit ==
    /\ Alive
    /\ retrying = 0
    /\ endCalls # <<>>
    /\ exitCode' = <<endCalls[1]>>
    /\ UNCHANGED <<options, reporterInstance, reporterCreated, testsFinished,
                   failsOccured, stdMessagesMap, messagesSeen, failListeners, status,
                   testFile, eventsNotEmited, ended, retrying, retryMark, runnerStarted,
                   output, endCalls>>

Next ==
    \/ \E f \in Files, s \in Streams, t \in Times : StdMessage(f, s, t)
    \/ \E c \in Collectors, f \in Files : StdFail(c, f)
    \/ \E c \in Collectors, w \in 0..3, f \in Files \cup {NoFile} : Construct(c, w, f)
    \/ \E c \in Collectors, k \in Kinds, t \in Times : RunnerEvent(c, k, t)
    \/ \E c \in Collectors : RunnerEnd(c)
    \/ ProcessExit

Spec == Init /\ [][Next]_vars

\* ------------------------------------------------- the merge on its own
\* One collector, bound to file f1, that has buffered any sequence of at most
\* MaxSortEvents events and whose file has any sequence of at most MaxSortMsgs
\* captured messages, with timestamps drawn from SortTimes; then its 'end'.
SortTimes == {10, 15, 20}

SeqsUpTo(S, n) == UNION {[1..k -> S] : k \in 0..n}

SortInit ==
    /\ options = [testsLength |-> 1]
    /\ reporterInstance = 1
    /\ reporterCreated = 1
    /\ testsFinished = 0
    /\ failsOccured = 0
    /\ \E ts \in SeqsUpTo(SortTimes, MaxSortMsgs) :
          /\ stdMessagesMap = [f \in Files |->
                IF f = "f1"
                THEN [i \in 1..Len(ts) |->
                        [streamName |-> "stdout", message |-> <<"f1", i>>,
                         timestamp |-> ts[i]]]
                ELSE <<>>]
          /\ messagesSeen = Len(ts)
    /\ failListeners = 1
    /\ status = [c \in Collectors |-> IF c = 1 THEN "constructed" ELSE "none"]
    /\ testFile = [c \in Collectors |-> IF c = 1 THEN "f1" ELSE NoFile]
    /\ \E ts \in SeqsUpTo(SortTimes, MaxSortEvents) :
          eventsNotEmited = [c \in Collectors |->
                IF c = 1
                THEN [i \in 1..Len(ts) |->
                        [type |-> "pass", data |-> <<1, i>>, timestamp |-> ts[i]]]
                ELSE <<>>]
    /\ ended = [c \in Collectors |-> 0]
    /\ retrying = 0
    /\ retryMark = [c \in Collectors |-> 0]
    /\ runnerStarted = TRUE
    /\ output = <<>>
    /\ endCalls = <<>>
    /\ exitCode = <<>>

SortNext == RunnerEnd(1) /\ ended[1] = 0

SortSpec == SortInit /\ [][SortNext]_vars

\* ------------------------------------------------------------ claims
Outputs == 1..Len(output)

\* the number of events of the kind that collectors 1..c have buffered
RECURSIVE Observed(_, _)
Observed(kind, c) ==
    IF c = 0 THEN 0
    ELSE Cardinality({i \in 1..Len(eventsNotEmited[c]) : eventsNotEmited[c][i].type = kind})
         + Observed(kind, c - 1)

\* C1: whatever has reached the sink or a real stream belongs to a worker that
\* has signalled 'end': a lifecycle event other than failRetry to a collector
\* that has ended, a captured message to a file one of whose collectors has ended
C1_NoEarlyEmission ==
    \A i \in Outputs :
        LET o == output[i] IN
        /\ (o.type = "runnerEvent" /\ o.payload.type # "failRetry")
              => ended[o.payload.data[1]] > 0
        /\ o.type = "stdStreamMessage"
              => \E c \in Collectors :
                    testFile[c] = o.payload.message[1] /\ ended[c] > 0

\* C1 witness: one collector has replayed an event and a message while another
\* one, not yet ended, holds a buffered event and its file a captured message
C1_Witness ==
    /\ ended[1] > 0 /\ ended[2] = 0
    /\ \E i, j \in Outputs :
          output[i].type = "runnerEvent" /\ output[j].type = "stdStreamMessage"
    /\ Len(eventsNotEmited[2]) > 0
    /\ testFile[2] \in Files /\ testFile[2] # testFile[1]

\* C2: finalize (runnerWrapped.end) has been called exactly once if the number of
\* 'end' signals has reached testsLength, and not at all before that
C2_BarrierExact ==
    IF "testsLength" \in DOMAIN options /\ options.testsLength >= 1
       /\ testsFinished >= options.testsLength
    THEN Len(endCalls) = 1
    ELSE endCalls = <<>>

\* C2 witness: a further 'end' came after the one that finalized
C2_Witness ==
    /\ "testsLength" \in DOMAIN options
    /\ options.testsLength >= 1
    /\ testsFinished > options.testsLength
    /\ Len(endCalls) = 1

\* C3: the value handed to finalize is the number of 'fail' events minus the
\* number of 'failRetry' events observed by then, and process.exit gets that value
C3_FinalCount ==
    [][ /\ endCalls' # endCalls =>
            endCalls'[Len(endCalls')] =
                Observed("fail", NumCollectors)' - Observed("failRetry", NumCollectors)'
        /\ exitCode' # exitCode => exitCode' = <<endCalls[1]>>
      ]_vars

\* C3 witness: the process has exited with 0, one failure and one retry observed
C3_Witness ==
    /\ exitCode = <<0>>
    /\ endCalls = <<0>>
    /\ Observed("fail", NumCollectors) = 1
    /\ Observed("failRetry", NumCollectors) = 1

\* the reference order of the merge: timestamp ascending, then captured message
\* before lifecycle event, then buffering index ascending
RefBefore(a, b) ==
    \/ a.meta.timestamp < b.meta.timestamp
    \/ /\ a.meta.timestamp = b.meta.timestamp
       /\ a.type = "stdStreamMessage" /\ b.type = "runnerEvent"
    \/ /\ a.meta.timestamp = b.meta.timestamp
       /\ a.type = b.type
       /\ a.meta.index < b.meta.index

\* what the replay did with an entry of the merge set
Replayed(i) ==
    [type |-> output[i].type, payload |-> output[i].payload, meta |-> output[i].meta]

\* C4: the replay at a collector's 'end' is the merge set (every buffered event and
\* every captured message of its file, once each) in the reference order
C4_MergeOrder ==
    ended[1] = 1 =>
        /\ Len(output) = Len(AllEvents(1))
        /\ \A k \in 1..Len(AllEvents(1)) : \E i \in Outputs : Replayed(i) = AllEvents(1)[k]
        /\ \A i, j \in Outputs : i < j => RefBefore(output[i], output[j])

\* C4 witness: a replay of three events and two messages in which a message
\* recorded second is written first and a message precedes an event of its timestamp
C4_Witness ==
    /\ ended[1] = 1
    /\ Len(output) = 5
    /\ \E i, j \in Outputs :
          /\ i < j
          /\ output[i].type = "stdStreamMessage" /\ output[j].type = "stdStreamMessage"
          /\ output[i].meta.index > output[j].meta.index
    /\ \E i, j \in Outputs :
          /\ i < j
          /\ output[i].type = "stdStreamMessage" /\ output[j].type = "runnerEvent"
          /\ output[i].meta.timestamp = output[j].meta.timestamp

\* the worker of the example: events buffered at 10, 20, 20 and messages
\* recorded at 20, 15, after its 'end'
ExampleReplayed ==
    /\ ended[1] = 1
    /\ [i \in 1..Len(eventsNotEmited[1]) |-> eventsNotEmited[1][i].timestamp] = <<10, 20, 20>>
    /\ [i \in 1..Len(stdMessagesMap["f1"]) |-> stdMessagesMap["f1"][i].timestamp] = <<20, 15>>

\* the replay as <<type, buffering index (from 0), timestamp>> per call
ReplayShape ==
    [i \in Outputs |-> <<output[i].type, output[i].meta.index, output[i].meta.timestamp>>]

\* C5 as stated: the example replays msg@15, event@10, msg@20, event@20(#1), event@20(#2)
C5_ExampleAsStated ==
    ExampleReplayed =>
        ReplayShape = << <<"stdStreamMessage", 1, 15>>, <<"runnerEvent", 0, 10>>,
                         <<"stdStreamMessage", 0, 20>>, <<"runnerEvent", 1, 20>>,
                         <<"runnerEvent", 2, 20>> >>

\* C5 amended: the example replays event@10, msg@15, msg@20, event@20(#1), event@20(#2)
C5_ExampleOrder ==
    ExampleReplayed =>
        ReplayShape = << <<"runnerEvent", 0, 10>>, <<"stdStreamMessage", 1, 15>>,
                         <<"stdStreamMessage", 0, 20>>, <<"runnerEvent", 1, 20>>,
                         <<"runnerEvent", 2, 20>> >>

\* C5 witness: the example worker has been replayed
C5_Witness == ExampleReplayed /\ Len(output) = 5

C7_SingleSink ==
    /\ reporterCreated <= 1
    /\ (output # <<>> \/ \E c \in Collectors : status[c] = "constructed")
          => reporterCreated = 1 /\ reporterInstance = 1

\* C7 witness: two collectors have each replayed something into the one instance
C7_Witness ==
    /\ reporterCreated = 1
    /\ \A c \in Collectors : ended[c] > 0 /\ \E i \in Outputs : output[i].by = c /\ ~output[i].live

\* C8 as stated: with testsLength = 0 finalize has fired, with 0, and nothing has
\* been sent to the sink
C8_ZeroWorkers ==
    TestsLengthIs(0) => endCalls = <<0>> /\ output = <<>>

\* C9 as stated: testsFinished never exceeds testsLength
C9_CounterBounded ==
    ("testsLength" \in DOMAIN options /\ options.testsLength >= 1)
        => testsFinished <= options.testsLength

\* the collectors that have signalled 'end'
EndedCollectors == {c \in Collectors : ended[c] > 0}

\* C10 as stated: finalize has fired once testsLength (>= 1) workers have
\* signalled 'end', and has not fired while fewer have
C10_HungWorkerBlocks ==
    ("testsLength" \in DOMAIN options /\ options.testsLength >= 1)
        => (endCalls # <<>> <=> Cardinality(EndedCollectors) >= options.testsLength)

\* C11 as stated: without options.testsLength no collector is constructed and
\* no worker event is accepted
C11_MissingCountFatal ==
    "testsLength" \notin DOMAIN options =>
        \A c \in Collectors :
            status[c] # "constructed" /\ eventsNotEmited[c] = <<>> /\ ended[c] = 0

\* C12: a construction for which none of the three reporterTryPaths resolves
\* while no reporter exists fails and changes nothing else: no reporter, no
\* listener, counters and output as before; a failed collector never accepts
\* an event or an 'end'
C12_InvalidReporterFatal ==
    [][ /\ \A c \in Collectors, f \in Files \cup {NoFile} :
              (reporterInstance = 0 /\ Construct(c, 0, f)) =>
                  /\ status'[c] = "failed"
                  /\ reporterInstance' = 0 /\ reporterCreated' = reporterCreated
                  /\ UNCHANGED <<failsOccured, testsFinished, output, endCalls,
                                 failListeners, testFile, eventsNotEmited, ended,
                                 stdMessagesMap, runnerStarted>>
        /\ \A c \in Collectors :
              status'[c] = "failed" => eventsNotEmited'[c] = <<>> /\ ended'[c] = 0
      ]_vars

\* C12 witness: the first construction failed, events and an 'end' went to the
\* second collector only
C12_Witness ==
    /\ status[1] = "failed" /\ status[2] = "constructed"
    /\ eventsNotEmited[1] = <<>> /\ ended[1] = 0
    /\ eventsNotEmited[2] # <<>> /\ ended[2] > 0

\* the calls made with the arguments of c's i-th event, at once or in a replay
CallsOf(c, i, isLive) ==
    {k \in Outputs : /\ output[k].type = "runnerEvent"
                     /\ output[k].payload.data = <<c, i>>
                     /\ output[k].payload.type = eventsNotEmited[c][i].type
                     /\ output[k].live = isLive}

C14_NoTransitionAfterFinalized ==
    [][ (endCalls # <<>> /\ ended' # ended) =>
            /\ testsFinished' = testsFinished
            /\ output' = output
            /\ endCalls' = endCalls
      ]_vars

\* C15 as stated: while no collector has signalled 'end' there is no reporter
C15_LazyAtCompletion ==
    (\A c \in Collectors : ended[c] = 0) => reporterInstance = 0

\* C15 amended: the reporter exists exactly from the first successful
\* construction of a collector on
C15_LazyAtConstruction ==
    reporterInstance # 0 <=> \E c \in Collectors : status[c] = "constructed"

\* C15 witness: a collector is constructed and buffers an event, none has
\* ended, the reporter exists
C15_Witness ==
    /\ \A c \in Collectors : ended[c] = 0
    /\ status[1] = "constructed" /\ eventsNotEmited[1] # <<>>
    /\ reporterInstance = 1

\* the positions of the calls the current step adds to the output
Added == (Len(output) + 1)..Len(output')

\* the output so far is kept by the step
OutputKept == SubSeq(output', 1, Len(output)) = output

RECURSIVE IndicesOf(_, _)
IndicesOf(type, n) ==
    IF n = 0 THEN <<>>
    ELSE IF output[n].type = type
         THEN Append(IndicesOf(type, n - 1), output[n].meta.index)
         ELSE IndicesOf(type, n - 1)

NonDecreasing(seq) ==
    \A i \in 1..(Len(seq) - 1) : seq[i].timestamp <= seq[i + 1].timestamp

\* C17: when the timestamps of the buffered events do not decrease, the replay
\* forwards the events in buffering order, and likewise the captured messages
C17_SameWorkerOrder ==
    ended[1] = 1 =>
        /\ NonDecreasing(eventsNotEmited[1]) =>
              IndicesOf("runnerEvent", Len(output))
                  = [i \in 1..Len(eventsNotEmited[1]) |-> i - 1]
        /\ NonDecreasing(stdMessagesMap["f1"]) =>
              IndicesOf("stdStreamMessage", Len(output))
                  = [i \in 1..Len(stdMessagesMap["f1"]) |-> i - 1]

\* C17 witness: three events, the last two of one timestamp, and two messages
\* of one timestamp have been replayed
C17_Witness ==
    /\ ended[1] = 1
    /\ Len(eventsNotEmited[1]) = 3 /\ NonDecreasing(eventsNotEmited[1])
    /\ eventsNotEmited[1][2].timestamp = eventsNotEmited[1][3].timestamp
    /\ Len(stdMessagesMap["f1"]) = 2
    /\ stdMessagesMap["f1"][1].timestamp = stdMessagesMap["f1"][2].timestamp
    /\ Len(output) = 5

\* no constructed collector is bound to the file
UnknownWorker(f) == \A c \in Collectors : testFile[c] # f

\* a collector bound to the file has had its 'end'
MergedWorker(f) == \E c \in Collectors : testFile[c] = f /\ ended[c] > 0

\* C18 as stated: a message captured for a file that is unknown or already
\* merged is dropped
C18_LateCaptureDropped ==
    [][ messagesSeen' # messagesSeen =>
            \A f \in Files :
                (UnknownWorker(f) \/ MergedWorker(f))
                    => stdMessagesMap'[f] = stdMessagesMap[f]
      ]_vars

\* C18 amended: every captured message is appended to the entry of its file,
\* whatever collectors exist or have ended, and every 'end' of a collector
\* writes all the messages then in the entry of its file
C18_LateCaptureKept ==
    [][ /\ messagesSeen' # messagesSeen =>
              \E f \in Files :
                  /\ Len(stdMessagesMap'[f]) = Len(stdMessagesMap[f]) + 1
                  /\ stdMessagesMap'[f][Len(stdMessagesMap'[f])].message = <<f, messagesSeen'>>
                  /\ SubSeq(stdMessagesMap'[f], 1, Len(stdMessagesMap[f])) = stdMessagesMap[f]
        /\ \A c \in Collectors : ended'[c] # ended[c] =>
              \A i \in 1..Len(MessagesOf(testFile[c])) :
                  \E k \in Added :
                      /\ output'[k].type = "stdStreamMessage"
                      /\ output'[k].payload.message = MessagesOf(testFile[c])[i].message
      ]_vars

\* C18 witness: collector 1 has ended twice and written a message in one of
\* the two replays only: the message came after the first merge
C18_Witness ==
    /\ ended[1] = 2
    /\ Cardinality({k \in Outputs : output[k].type = "stdStreamMessage"
                                      /\ output[k].by = 1}) = 1

\* C19: an 'end' of collector c leaves every event buffer and the captured
\* messages as they are, adds one to testsFinished and replays every buffered
\* event and every message of c's file, also when it is not c's first 'end'
C19_EndKeepsBuffers ==
    [][ \A c \in Collectors : ended'[c] # ended[c] =>
            /\ eventsNotEmited' = eventsNotEmited
            /\ stdMessagesMap' = stdMessagesMap
            /\ testsFinished' = testsFinished + 1
            /\ Len(output') = Len(output) + Len(eventsNotEmited[c])
                                + Len(MessagesOf(testFile[c]))
            /\ \A i \in 1..Len(eventsNotEmited[c]) :
                  \E k \in Added : /\ output'[k].type = "runnerEvent"
                                   /\ output'[k].payload.data = <<c, i>>
      ]_vars

\* C19 witness: collector 1 has ended twice and replayed its event and its
\* message twice
C19_Witness ==
    /\ ended[1] = 2 /\ testsFinished = 2
    /\ Len(eventsNotEmited[1]) = 1
    /\ Cardinality(CallsOf(1, 1, FALSE)) = 2
    /\ Cardinality({k \in Outputs : output[k].type = "stdStreamMessage"
                                      /\ output[k].by = 1}) = 2

\* C20: the step that emits stdStreamsEmitter 'fail' empties at most the entry
\* of one file, the file of the retried collector when the collector knows it,
\* and changes no event buffer, counter or output; the events a
\* collector buffered are replayed at each of its 'end's, retry or not
C20_RetryClearFrame ==
    [][ /\ (retrying = 0 /\ retrying' # 0) =>
              /\ \E f \in Files :
                    /\ testFile[retrying'] \in {f, NoFile}
                    /\ stdMessagesMap'[f] \in {<<>>, stdMessagesMap[f]}
                    /\ \A g \in Files \ {f} : stdMessagesMap'[g] = stdMessagesMap[g]
              /\ UNCHANGED <<eventsNotEmited, failsOccured, testsFinished, output,
                             endCalls>>
        /\ \A c \in Collectors : \A i \in 1..Len(eventsNotEmited'[c]) :
              eventsNotEmited'[c][i].type # "failRetry"
                  => Cardinality({k \in 1..Len(output') :
                                    /\ output'[k].type = "runnerEvent"
                                    /\ output'[k].payload.data = <<c, i>>
                                    /\ ~output'[k].live}) = ended'[c]
      ]_vars

\* C20 witness: collector 1 buffered a fail, was retried and has ended; the fail
\* was replayed and the message of the other file is still in its entry
C20_Witness ==
    /\ Len(eventsNotEmited[1]) = 2
    /\ eventsNotEmited[1][1].type = "fail" /\ eventsNotEmited[1][2].type = "failRetry"
    /\ ended[1] = 1
    /\ Cardinality(CallsOf(1, 1, FALSE)) = 1
    /\ \E g \in Files : g # testFile[1] /\ stdMessagesMap[g] # <<>>
    /\ testFile[1] \in Files

TypeOK ==
    /\ options \in OptionsSet
    /\ testsFinished \in 0..MaxEnds
    /\ failsOccured \in Int
    /\ status \in [Collectors -> {"none", "constructed", "failed"}]
    /\ testFile \in [Collectors -> Files \cup {NoFile}]
====
